---- MODULE Spec2Model ----
(***************************************************************************)
(* Model of the introspection CLI's interactive prompt:                    *)
(*   - the cursor helpers `down` / `up` (components/helpers),              *)
(*   - the `Prompt` component (components/BoxPrompt.tsx): form values,     *)
(*     spinners, cursor, key handler, select / back handlers,              *)
(*   - the `Introspection` wizard (index.tsx): step, credentials and the   *)
(*     asynchronous select actions `Test` and `Connection`,                *)
(*   - the `introspect` command (index.ts): flag resolution               *)
(*     `getCredentialsByFlags`, the Mongo URI helpers (introspect/util)    *)
(*     and the run of `parse` up to the process exit.                      *)
(* Indices are 0-based as in the source; At(s, i) reads s[i].              *)
(***************************************************************************)
EXTENDS Integers, Sequences, FiniteSets, Bags, TLC

\* ------------------------------------------------------------------ bounds
\* longest element list drawn for the cursor helpers
MaxLen == 4
\* largest cost of the interactions in one run: a call of a select action
\* and an entry of the Connect step cost one each, a TextInput / Checkbox
\* change costs two
MaxInteractions == 5
\* largest cost of the interactions in one run that is checked for liveness
MaxLiveInteractions == 3
\* most optional and mode flags on one command line
MaxOtherFlags == 2
\* most pieces after the scheme in a Mongo connection string
MaxUriLen == 3

\* --------------------------------------------------------------- JS values
\* the JS value `undefined`
Undefined == "undefined"
\* the empty object {}
EmptyObject == <<>>

\* obj[key] of a JS object held as a function on its own keys
Get(obj, key) == IF key \in DOMAIN obj THEN obj[key] ELSE Undefined

\* !!obj[key] for a string-valued key: undefined and "" are falsy
Truthy(obj, key) == key \in DOMAIN obj /\ obj[key] # ""

\* obj[key] || false for a boolean-valued key
OrFalse(obj, key) == key \in DOMAIN obj /\ obj[key]

\* { ...a, ...b }: keys of b win
Spread(a, b) == b @@ a

\* { ...obj, [key]: value }
Assign(obj, key, value) == (key :> value) @@ obj

\* s[i] with the source's 0-based index
At(s, i) == s[i + 1]

\* ---------------------------------------------------------------- elements
ElementTypes == {"text-input", "select", "checkbox", "separator"}

Element(type, identifier, value, onSelect) ==
  [type |-> type, identifier |-> identifier, value |-> value, onSelect |-> onSelect]

\* the Connect step's element list
elements == <<
  Element("text-input", "host", Undefined, Undefined),
  Element("text-input", "port", Undefined, Undefined),
  Element("text-input", "user", Undefined, Undefined),
  Element("text-input", "password", Undefined, Undefined),
  Element("text-input", "database", Undefined, Undefined),
  Element("checkbox", "ssl", Undefined, Undefined),
  Element("separator", Undefined, Undefined, Undefined),
  Element("select", Undefined, "test", "Test"),
  Element("select", Undefined, "connection", "Connection") >>

\* the ChooseFamily step's element list
CHOOSE_DB == <<
  Element("select", Undefined, "postgres", Undefined),
  Element("select", Undefined, "mysql", Undefined),
  Element("select", Undefined, "mongodb", Undefined) >>

\* the synthesized Back element
BackElement == Element("select", Undefined, Undefined, Undefined)

isElementInput(obj) == obj.type = "text-input"
isElementSelect(obj) == obj.type = "select"
isElementCheckbox(obj) == obj.type = "checkbox"
isElementSeparator(obj) == obj.type = "separator"

\* ----------------------------------------------------------- cursor engine
\* a down loop that does not step over separators
downLoopNoSkip(c, els) == c

RECURSIVE downLoop(_, _)
\* the while loop of down: step over the separators that follow the cursor
downLoop(c, els) ==
  IF c < Len(els) - 1 /\ At(els, c + 1).type = "separator"
  THEN downLoop(c + 1, els)
  ELSE c

\* a down that forgets the end of the list
downNoClamp(c, els) == downLoop(c, els) + 1

down(c, els) ==
  LET k == downLoop(c, els)
  IN IF k < Len(els) - 1 THEN k + 1 ELSE k

\* an up loop that does not step over separators
upLoopNoSkip(c, els) == c

RECURSIVE upLoop(_, _)
\* the while loop of up: step over the separators that precede the cursor
upLoop(c, els) ==
  IF c > 0 /\ At(els, c - 1).type = "separator"
  THEN upLoop(c - 1, els)
  ELSE c

up(c, els) ==
  LET k == upLoop(c, els)
  IN IF k > 0 THEN k - 1 ELSE k

\* -------------------------------------------------------------- JS strings
\* A string is held as the sequence of its pieces (characters, or longer
\* tokens such as the scheme); the string is their concatenation, "" is <<>>.
RECURSIVE Range(_)
Range(s) == IF s = <<>> THEN {} ELSE {Head(s)} \cup Range(Tail(s))

RECURSIVE SeqsUpTo(_, _)
\* every sequence over `pieces` of length at most n
SeqsUpTo(pieces, n) ==
  IF n = 0 THEN { <<>> }
  ELSE LET shorter == SeqsUpTo(pieces, n - 1)
       IN shorter \cup { Append(s, p) : s \in shorter, p \in pieces }

\* a JS number: NaN, or an integer
NaN == [isNaN |-> TRUE, value |-> 0]
Num(n) == [isNaN |-> FALSE, value |-> n]

Digits == << "0", "1", "2", "3", "4", "5", "6", "7", "8", "9" >>
IsDigit(ch) == \E d \in 1..Len(Digits) : Digits[d] = ch
DigitValue(ch) == (CHOOSE d \in 1..Len(Digits) : Digits[d] = ch) - 1

RECURSIVE skipWhiteSpace(_)
skipWhiteSpace(s) ==
  IF s # <<>> /\ Head(s) = " " THEN skipWhiteSpace(Tail(s)) ELSE s

RECURSIVE leadingDigits(_, _)
\* value of the longest prefix of digits of s, read in base 10 after `acc`
leadingDigits(s, acc) ==
  IF s # <<>> /\ IsDigit(Head(s))
  THEN leadingDigits(Tail(s), acc * 10 + DigitValue(Head(s)))
  ELSE acc

\* parseInt(s, 10): leading white space, an optional sign, then the digits
\* up to the first other character; NaN when there is no digit
parseInt(s) ==
  LET t == skipWhiteSpace(s)
      signed == t # <<>> /\ Head(t) \in {"-", "+"}
      body == IF signed THEN Tail(t) ELSE t
      magnitude == leadingDigits(body, 0)
  IN IF body = <<>> \/ ~IsDigit(Head(body)) THEN NaN
     ELSE IF signed /\ Head(t) = "-" THEN Num(0 - magnitude)
     ELSE Num(magnitude)

\* String(undefined), what parseInt reads when it is handed undefined
UndefinedString == << "u", "n", "d", "e", "f", "i", "n", "e", "d" >>

\* parseInt(obj[key], 10)
parseIntOf(obj, key) ==
  IF key \in DOMAIN obj THEN parseInt(obj[key]) ELSE parseInt(UndefinedString)

\* a test that takes only undefined for falsy
FalsyUndefinedOnly(obj, key) == key \notin DOMAIN obj

\* !obj[key] for a string: undefined and "" are falsy
Falsy(obj, key) == key \notin DOMAIN obj \/ obj[key] = <<>>

\* a call that returned `value`, and a call that threw an Error
Returns(value) == [kind |-> "returns", value |-> value]
Throws(text, detail) == [kind |-> "throws", message |-> [text |-> text, detail |-> detail]]

\* ------------------------------------------------------------ WHATWG URL
\* the scheme of a Mongo connection string, with its "//"
Scheme == "mongodb://"

\* position of the first piece of s that is in `marks`, or Len(s) + 1
FirstIn(s, marks) ==
  IF \E i \in 1..Len(s) : s[i] \in marks
  THEN CHOOSE i \in 1..Len(s) : s[i] \in marks /\ \A j \in 1..(i - 1) : s[j] \notin marks
  ELSE Len(s) + 1

\* new URL(uri) for a scheme that is not special: the host runs up to the
\* first "/" or "?", the path from the first "/" up to the "?", the query
\* after the "?"; a string without a scheme is not a URL
URL(uri) ==
  IF uri = <<>> \/ Head(uri) # Scheme THEN [valid |-> FALSE]
  ELSE LET rest == Tail(uri)
           q == FirstIn(rest, {"?"})
           hier == SubSeq(rest, 1, q - 1)
           p == FirstIn(hier, {"/"})
       IN [valid |-> TRUE,
           host |-> SubSeq(hier, 1, p - 1),
           pathname |-> SubSeq(hier, p, Len(hier)),
           hasQuery |-> q <= Len(rest),
           query |-> SubSeq(rest, q + 1, Len(rest))]

\* url.pathname = name, for a name without a leading slash
setPathname(url, name) == [url EXCEPT !.pathname = << "/", name >>]

\* url.toString()
toString(url) ==
  << Scheme >> \o url.host \o url.pathname
     \o (IF url.hasQuery THEN << "?" >> \o url.query ELSE <<>>)

InvalidUrl == Throws("Invalid URL", <<>>)

\* a sanitizer that rewrites every path
sanitizeMongoUriAlways(mongoUri) ==
  LET url == URL(mongoUri)
  IN IF ~url.valid THEN InvalidUrl
     ELSE Returns(toString(setPathname(url, "admin")))

sanitizeMongoUri(mongoUri) ==
  LET url == URL(mongoUri)
  IN IF ~url.valid THEN InvalidUrl
     ELSE IF url.pathname = << "/" >> \/ Len(url.pathname) = 0
          THEN Returns(toString(setPathname(url, "admin")))
          ELSE Returns(toString(url))

\* a populate that prefers the path over the explicit database
populateMongoDatabasePathFirst(params) ==
  LET url == URL(params.uri)
  IN IF ~url.valid THEN InvalidUrl
     ELSE IF (url.pathname = << "/" >> \/ Len(url.pathname) = 0) /\ Falsy(params, "database")
          THEN Throws("Please provide a Mongo database in your connection string.", <<>>)
          ELSE Returns([uri |-> params.uri,
                        database |-> IF Len(url.pathname) > 1
                                     THEN Tail(url.pathname) ELSE params.database])

\* params is { uri, database }, database absent when undefined
populateMongoDatabase(params) ==
  LET url == URL(params.uri)
  IN IF ~url.valid THEN InvalidUrl
     ELSE IF (url.pathname = << "/" >> \/ Len(url.pathname) = 0) /\ Falsy(params, "database")
          THEN Throws("Please provide a Mongo database in your connection string.", <<>>)
          ELSE Returns([uri |-> params.uri,
                        database |-> IF Falsy(params, "database")
                                     THEN Tail(url.pathname) ELSE params.database])

\* ------------------------------------------------------- flag resolution
requiredPostgresFlags == << "--pg-host", "--pg-user", "--pg-password", "--pg-db" >>
requiredMysqlFlags == << "--mysql-host", "--mysql-user", "--mysql-password" >>

\* the property `key: obj[flag]`; a property whose value is undefined is
\* held as an absent key
Prop(key, obj, flag) == IF flag \in DOMAIN obj THEN key :> obj[flag] ELSE EmptyObject

\* a handler that lists the provided arguments instead of the missing ones
handleMissingArgsProvided(requiredArgs, providedArgs, prefix) ==
  Throws("If you provide one of the arguments, you need to provide all of them.",
         << prefix, SelectSeq(requiredArgs, LAMBDA arg : arg \in providedArgs) >>)

\* providedArgs is held as the set of its members
handleMissingArgs(requiredArgs, providedArgs, prefix) ==
  LET missingArgs == SelectSeq(requiredArgs,
                               LAMBDA arg : ~(\E provided \in providedArgs : arg = provided))
  IN Throws("If you provide one of the arguments, you need to provide all of them.",
            << prefix, missingArgs >>)

\* a family test that only sees complete groups
providesBothComplete(mysqlFlags, postgresFlags) ==
  /\ Cardinality(mysqlFlags) >= Len(requiredMysqlFlags)
  /\ Cardinality(postgresFlags) >= Len(requiredPostgresFlags)

\* mysqlFlags.length > 0 && postgresFlags.length > 0
providesBoth(mysqlFlags, postgresFlags) ==
  Cardinality(mysqlFlags) > 0 /\ Cardinality(postgresFlags) > 0

\* history: `result` together with what its call of populateMongoDatabase gave
Called(populated, result) == ("populated" :> populated) @@ result

\* the result is a thrown Error, a returned descriptor, or null
getCredentialsByFlags(args) ==
  LET flagsKeys == DOMAIN args
      mysqlFlags == { f \in flagsKeys : f \in Range(requiredMysqlFlags) }
      postgresFlags == { f \in flagsKeys : f \in Range(requiredPostgresFlags) }
  IN IF providesBoth(mysqlFlags, postgresFlags)
     THEN Throws("You can't provide both MySQL and Postgres connection flags.", <<>>)
     ELSE IF Cardinality(mysqlFlags) > 0 /\ Cardinality(mysqlFlags) < Len(requiredMysqlFlags)
     THEN handleMissingArgs(requiredMysqlFlags, mysqlFlags, "mysql")
     ELSE IF Cardinality(postgresFlags) > 0
             /\ Cardinality(postgresFlags) < Len(requiredPostgresFlags)
     THEN handleMissingArgs(requiredPostgresFlags, postgresFlags, "pg")
     ELSE IF Cardinality(mysqlFlags) >= Len(requiredMysqlFlags)
     THEN Returns(Prop("host", args, "--mysql-host")
                  @@ ("port" :> parseIntOf(args, "--mysql-port"))
                  @@ Prop("user", args, "--mysql-user")
                  @@ Prop("password", args, "--mysql-password")
                  @@ Prop("schema", args, "--mysql-db")
                  @@ ("type" :> "mysql"))
     ELSE IF Cardinality(postgresFlags) >= Len(requiredPostgresFlags)
     THEN Returns(Prop("host", args, "--pg-host")
                  @@ Prop("user", args, "--pg-user")
                  @@ Prop("password", args, "--pg-password")
                  @@ Prop("database", args, "--pg-db")
                  @@ ("port" :> parseIntOf(args, "--pg-port"))
                  @@ Prop("schema", args, "--pg-schema")
                  @@ ("type" :> "postgres"))
     ELSE IF ~Falsy(args, "--mongo-uri")
     THEN LET uri == args["--mongo-uri"]
              populated == populateMongoDatabase(("uri" :> uri) @@ Prop("database", args, "--mongo-db"))
          IN IF populated.kind = "throws" THEN Called(populated, populated)
             ELSE LET sanitized == sanitizeMongoUri(populated.value.uri)
                  IN IF sanitized.kind = "throws" THEN Called(populated, sanitized)
                     ELSE Called(populated, Returns([uri |-> sanitized.value,
                                                     schema |-> populated.value.database,
                                                     type |-> "mongo"]))
     ELSE [kind |-> "null"]

\* ------------------------------------------------------------------- state
VARIABLES
  propsElements,     \* Prompt props.elements of the mounted step
  withBackButton,    \* Prompt props.withBackButton of the mounted step
  step,              \* Introspection state `step`
  credentials,       \* Introspection state `credentials`
  formValues,        \* Prompt state `formValues`
  spinnersByCursor,  \* Prompt state `spinnersByCursor`
  cursor,            \* Prompt state `cursor`
  pending,           \* bag of select actions awaiting their timer, with what their closures captured
  handlers,          \* the render whose keypress listeners are subscribed to stdin
  surfaced,          \* history: the Connect step's onSubmit has printed a descriptor
  interactions,      \* history: cost of the changes, action calls and Connect entries so far
  formAtBack,        \* history: while ChooseFamily is shown again, formValues when Back was selected
  chosenFamily,      \* history: value submitted by the latest ChooseFamily step
  last,              \* history: what the latest event was and what it called
  args,              \* the parsed command line of the introspect command
  run                \* the run of `parse`: its position, what it resolved, printed, wrote, its exit code

vars == << propsElements, withBackButton, step, credentials, formValues,
           spinnersByCursor, cursor, pending, handlers, surfaced, interactions, formAtBack, chosenFamily, last,
           args, run >>

commandVars == << args, run >>

\* no keypress listener is subscribed: the effects of the first render of a
\* mounted Prompt have not run yet
NotSubscribed == [mounted |-> FALSE]

\* what the listeners subscribed by the effects of one render close over:
\* that render's cursor (the focus flags), formValues, spinnersByCursor, and
\* the credentials in its props.onSubmit
Snapshot(cu, fv, sp, creds) ==
  [mounted |-> TRUE, cursor |-> cu, formValues |-> fv,
   spinnersByCursor |-> sp, credentials |-> creds]

\* The React the wizard runs on is not pinned by the repository; the two
\* reconcilers of React 16 differ in when a state update runs the effects
\* that are still pending. "16.8": every dispatch of a state update runs
\* them first, also one that renders nothing or reaches an unmounted
\* component. "16.9": only the start of a render runs them, and a dispatch
\* that keeps the state of a component whose last render was not caused by
\* its own state renders nothing.
ReactBuilds == {"16.8", "16.9"}

IdleRun ==
  [pc |-> "idle", resolved |-> [kind |-> "none"], error |-> [text |-> "", detail |-> <<>>],
   caught |-> 0, printed |-> <<>>, written |-> FALSE, disconnected |-> FALSE, exit |-> {}]

wizardVars == << step, credentials, formValues, spinnersByCursor, pending, handlers,
                 surfaced, interactions, formAtBack, chosenFamily, withBackButton >>

\* ------------------------------------------------- cursor helpers, on their own
\* element lists of every length up to MaxLen, over the four element types
ElementLists ==
  UNION { [1..n -> { Element(t, Undefined, Undefined, Undefined) : t \in ElementTypes }]
          : n \in 1..MaxLen }

InitCursor ==
  /\ propsElements \in ElementLists
  /\ cursor \in 0..(Len(propsElements) - 1)
  /\ withBackButton = FALSE
  /\ step = "CHOOSE_DB"
  /\ credentials = EmptyObject
  /\ formValues = EmptyObject
  /\ spinnersByCursor = EmptyObject
  /\ pending = EmptyBag
  /\ handlers = NotSubscribed
  /\ surfaced = FALSE
  /\ interactions = 0
  /\ formAtBack = EmptyObject
  /\ chosenFamily = Undefined
  /\ last = [op |-> "init", from |-> cursor, start |-> cursor]
  /\ args = EmptyObject
  /\ run = IdleRun

CursorDown ==
  /\ cursor' = down(cursor, propsElements)
  /\ last' = [op |-> "down", from |-> cursor, start |-> last.start]
  /\ UNCHANGED << propsElements, wizardVars, commandVars >>

CursorUp ==
  /\ cursor' = up(cursor, propsElements)
  /\ last' = [op |-> "up", from |-> cursor, start |-> last.start]
  /\ UNCHANGED << propsElements, wizardVars, commandVars >>

NextCursor == CursorDown \/ CursorUp

SpecCursor == InitCursor /\ [][NextCursor]_vars

\* ------------------------------------------------------------------ Prompt
\* values a TextInput can report: cleared, or some text
TextValues == {"", "a"}

\* the list the cursor runs over: props.elements plus Back when enabled
elementsWithBack(els, back) == IF back THEN Append(els, BackElement) ELSE els

\* a key handler whose submit branch forgets the input's value
KeyCursorIgnoresValue(actionKey, prevCursor, els, fv) ==
  LET hoveredElement == At(els, prevCursor)
  IN IF actionKey = "up" THEN up(prevCursor, els)
     ELSE IF actionKey = "down" THEN down(prevCursor, els)
     ELSE IF actionKey = "next" /\ ~isElementInput(hoveredElement)
       THEN down(prevCursor, els)
     ELSE IF /\ actionKey = "submit"
             /\ ~isElementCheckbox(hoveredElement)
             /\ ~isElementSelect(hoveredElement)
       THEN down(prevCursor, els)
     ELSE prevCursor

\* the cursor update the Prompt's key handler makes for one action key
KeyCursor(actionKey, prevCursor, els, fv) ==
  LET hoveredElement == At(els, prevCursor)
  IN IF actionKey = "up" THEN up(prevCursor, els)
     ELSE IF actionKey = "down" THEN down(prevCursor, els)
     ELSE IF actionKey = "next" /\ ~isElementInput(hoveredElement)
       THEN down(prevCursor, els)
     ELSE IF /\ actionKey = "submit"
             /\ isElementInput(hoveredElement)
             /\ Truthy(fv, hoveredElement.identifier)
       THEN down(prevCursor, els)
     ELSE IF /\ actionKey = "submit"
             /\ ~isElementCheckbox(hoveredElement)
             /\ ~isElementSelect(hoveredElement)
             /\ ~isElementInput(hoveredElement)
       THEN down(prevCursor, els)
     ELSE prevCursor

onInputChange(prevCredentials, value, input) ==
  Assign(prevCredentials, input.identifier, value)

\* a startSpinner callback that sets nothing
addSpinnerNothing(prev, spinnerCursor) == prev

\* the state update made by the callback addSpinner(spinnerCursor) returns
addSpinner(prev, spinnerCursor) == Assign(prev, spinnerCursor, "running")

\* a stopSpinner callback that sets nothing
removeSpinnerNothing(prev, spinnerCursor, state) == prev

\* the state update made by the callback removeSpinner(spinnerCursor) returns
removeSpinner(prev, spinnerCursor, state) == Assign(prev, spinnerCursor, state)

\* the argument submitPrompt hands to props.onSubmit
submitPrompt(fv, value, goBack) ==
  [formValues |-> fv, selectedValue |-> value, goBack |-> goBack]

\* a select handler that starts its action whatever the spinner shows
CallsActionAlways(e, spinners, elemIndex) == e.onSelect # Undefined

\* the test of a select's onSelect: TRUE when e.onSelect is called
CallsAction(e, spinners, elemIndex) ==
  e.onSelect # Undefined /\ Get(spinners, elemIndex) # "running"

\* TRUE when a select's onSelect reaches its final submitPrompt(value)
SelectSubmits(e, spinners, elemIndex) == ~CallsAction(e, spinners, elemIndex)

\* ------------------------------------------------------------- SelectItem etc.
\* Checkbox calls onChange(!checked) on the submit key while it has focus
CheckboxFires(focus, action) == focus /\ action = "submit"

\* SelectItem calls onSelect(value) on the submit key while it has focus
SelectItemFires(focus, action) == focus /\ action = "submit"

\* TextInput calls onChange(value) when a typed key changes the text it shows
TextInputChanges(shown, value) == value # shown

\* --------------------------------------------------------------- Introspection
\* onSubmit of the CHOOSE_DB Prompt, closed over `creds`
ChooseDbOnSubmit(creds, params) ==
  [credentials |-> Assign(creds, "type", params.selectedValue),
   setStep |-> "CONNECT",
   printed |-> <<>>]

\* onSubmit of the CONNECT Prompt, closed over `creds`
ConnectOnSubmit(creds, params) ==
  LET allCredentials == Spread(creds, params.formValues)
  IN [credentials |-> allCredentials,
      setStep |-> IF params.goBack THEN "CHOOSE_DB" ELSE Undefined,
      printed |-> IF params.goBack THEN <<>> ELSE <<allCredentials>>]

\* props.onSubmit of the Prompt rendered for step `st`
onSubmit(st, creds, params) ==
  IF st = "CHOOSE_DB" THEN ChooseDbOnSubmit(creds, params)
  ELSE ConnectOnSubmit(creds, params)

\* what the switch in Introspection renders for a step
StepElements(st) == IF st = "CHOOSE_DB" THEN CHOOSE_DB ELSE elements
StepWithBackButton(st) == st = "CONNECT"
StepInitialFormValues(st, creds) == IF st = "CONNECT" THEN creds ELSE EmptyObject

\* whether the select action calls startSpinner() before its await
ActionStarts(name) == name \in {"Test", "Connection"}
\* the asynchronous tail of a select action: the spinner state it stops with
StopState(name) == IF name = "Test" THEN "failed" ELSE "succeeded"
\* whether the select action ends by calling submitPrompt()
ActionSubmits(name) == name = "Connection"

\* What the rest of a called select action holds on to while its timer runs:
\* stopSpinner (elemIndex, and whether its Prompt is still mounted) and, for
\* an action that uses submitPrompt, the value, formValues and props.onSubmit
\* (step, credentials) of the render that called it.
Closure(e, elemIndex, st, fv, creds) ==
  [elemIndex |-> elemIndex, onSelect |-> e.onSelect, live |-> TRUE,
   value |-> IF ActionSubmits(e.onSelect) THEN e.value ELSE Undefined,
   step |-> IF ActionSubmits(e.onSelect) THEN st ELSE Undefined,
   formValues |-> IF ActionSubmits(e.onSelect) THEN fv ELSE EmptyObject,
   credentials |-> IF ActionSubmits(e.onSelect) THEN creds ELSE EmptyObject]

\* an unmount after which pending actions still set the state shown
UnmountedStillSets(pend) == pend

\* the actions of an unmounted Prompt can no longer set its state
Unmounted(pend) ==
  LET dead == { [p EXCEPT !.live = FALSE] : p \in BagToSet(pend) }
  IN [q \in dead |-> CopiesIn(q, pend) + CopiesIn([q EXCEPT !.live = TRUE], pend)]

\* the wizard as started: ChooseFamily is rendered and the effects of that
\* render have subscribed its listeners (keys typed earlier wait in stdin)
Init ==
  /\ propsElements = StepElements("CHOOSE_DB")
  /\ withBackButton = StepWithBackButton("CHOOSE_DB")
  /\ step = "CHOOSE_DB"
  /\ credentials = EmptyObject
  /\ formValues = StepInitialFormValues("CHOOSE_DB", EmptyObject)
  /\ spinnersByCursor = EmptyObject
  /\ cursor = 0
  /\ pending = EmptyBag
  /\ handlers = Snapshot(cursor, formValues, spinnersByCursor, credentials)
  /\ surfaced = FALSE
  /\ interactions = 0
  /\ formAtBack = EmptyObject
  /\ chosenFamily = Undefined
  /\ last = [op |-> "init"]
  /\ args = EmptyObject
  /\ run = IdleRun

\* the result of the props.onSubmit calls an event made (at most one)
Submitted(calls) ==
  IF calls = <<>>
  THEN [credentials |-> credentials, setStep |-> Undefined, printed |-> <<>>]
  ELSE onSubmit(calls[1].step, calls[1].credentials, calls[1].params)

\* the listeners of the Prompt that the props.onSubmit calls of an event
\* mounted, once its effects have run
Mounted(calls) ==
  LET r == Submitted(calls)
  IN Snapshot(0, StepInitialFormValues(r.setStep, r.credentials), EmptyObject, r.credentials)

\* Re-render after an event `ev`: `calls` are the props.onSubmit calls the
\* event made (at most one), each with the step and credentials its closure
\* holds; fv, sp, cu, pend are the Prompt state the event leaves if the
\* Prompt stays mounted, and `subscribed` the listeners the event leaves
\* subscribed, by React build. A remount unsubscribes the listeners of the
\* old Prompt.
Render(ev, calls, fv, sp, cu, pend, subscribed) ==
  LET r == Submitted(calls)
      newStep == IF r.setStep = Undefined THEN step ELSE r.setStep
      count == (IF fv # formValues THEN 2 ELSE 0)
               + (IF ev.called THEN 1 ELSE 0)
               + (IF newStep # step /\ newStep = "CONNECT" THEN 1 ELSE 0)
  IN /\ interactions + count <= MaxInteractions
     /\ interactions' = interactions + count
     /\ credentials' = r.credentials
     /\ step' = newStep
     /\ surfaced' = (surfaced \/ r.printed # <<>>)
     /\ formAtBack' = IF calls # <<>> /\ calls[1].params.goBack
                      THEN calls[1].params.formValues
                      ELSE IF newStep = "CONNECT" THEN EmptyObject ELSE formAtBack
     /\ chosenFamily' = IF calls # <<>> /\ calls[1].step = "CHOOSE_DB"
                        THEN calls[1].params.selectedValue ELSE chosenFamily
     /\ IF newStep # step
        THEN /\ propsElements' = StepElements(newStep)
             /\ withBackButton' = StepWithBackButton(newStep)
             /\ formValues' = StepInitialFormValues(newStep, r.credentials)
             /\ spinnersByCursor' = EmptyObject
             /\ cursor' = 0
             /\ pending' = Unmounted(pend)
             /\ handlers' \in { subscribed[react] : react \in ReactBuilds }
        ELSE /\ UNCHANGED << propsElements, withBackButton >>
             /\ formValues' = fv
             /\ spinnersByCursor' = sp
             /\ cursor' = cu
             /\ pending' = pend
             /\ handlers' \in { subscribed[react] : react \in ReactBuilds }
     /\ last' = [op |-> ev.op, key |-> ev.key, called |-> ev.called, live |-> ev.live,
                 calls |-> [i \in 1..Len(calls) |-> calls[i].params],
                 printed |-> r.printed]
     /\ UNCHANGED commandVars

ActionKeys == {"up", "down", "next", "submit"}

\* One keypress with an action key, handled by the listeners that are
\* subscribed: the focused element's own handler (Checkbox, SelectItem, Back)
\* reacts to it with the focus, checked, spinner state, formValues and
\* props.onSubmit of the render that subscribed it, then the Prompt's key
\* handler moves the cursor (a functional update of the current cursor whose
\* submit test reads that render's formValues). The listeners of the
\* children are subscribed before the Prompt's own and so run first: the
\* Prompt's setCursor is dispatched after every state update of the children
\* has rendered, also when the Prompt was unmounted by them (the keypress is
\* emitted to the listeners subscribed when it arrived). Where that dispatch
\* runs the pending effects, the listeners left subscribed are those of the
\* state before the cursor moved. It always does on "16.8". On "16.9" it
\* does when it renders: the cursor moves, or the Prompt's last render came
\* from its own state (a toggle or a spinner start of this key, or an update
\* whose effects are still pending); otherwise the listeners stay those
\* subscribed when the last render began: the ones before this key's
\* props.onSubmit rendered, or the ones already subscribed. After a remount
\* the dispatch reaches the unmounted Prompt: on "16.8" it runs the effects
\* of the mount, on "16.9" the new listeners wait for them. A key that
\* arrives while no listener is subscribed is lost.
KeyPress(actionKey) ==
  LET els == elementsWithBack(propsElements, withBackButton)
      focused == handlers.cursor
      hovered == At(els, focused)
      onElement == focused < Len(propsElements)
      toggles == onElement /\ isElementCheckbox(hovered) /\ CheckboxFires(TRUE, actionKey)
      selects == onElement /\ isElementSelect(hovered) /\ SelectItemFires(TRUE, actionKey)
      back == withBackButton /\ SelectItemFires(focused = Len(els) - 1, actionKey)
      called == selects /\ CallsAction(hovered, handlers.spinnersByCursor, focused)
      submits == selects /\ SelectSubmits(hovered, handlers.spinnersByCursor, focused)
      params == IF back THEN << submitPrompt(handlers.formValues, Undefined, TRUE) >>
                ELSE IF submits THEN << submitPrompt(handlers.formValues, hovered.value, FALSE) >>
                ELSE << >>
      calls == [i \in 1..Len(params) |->
                 [step |-> step, credentials |-> handlers.credentials, params |-> params[i]]]
      fv == IF toggles
            THEN onInputChange(formValues, ~OrFalse(handlers.formValues, hovered.identifier), hovered)
            ELSE formValues
      starts == called /\ ActionStarts(hovered.onSelect)
      sp == IF starts THEN addSpinner(spinnersByCursor, focused) ELSE spinnersByCursor
      pend == IF called
              THEN pending (+) SetToBag({Closure(hovered, focused, step,
                                                 handlers.formValues, handlers.credentials)})
              ELSE pending
      cu == KeyCursor(actionKey, cursor, els, handlers.formValues)
      creds == Submitted(calls).credentials
      ownPending == \/ handlers.cursor # cursor
                    \/ handlers.formValues # formValues
                    \/ handlers.spinnersByCursor # spinnersByCursor
      remounts == Submitted(calls).setStep \notin {Undefined, step}
      subscribed == [react \in ReactBuilds |->
        IF remounts
          THEN IF react = "16.8" THEN Mounted(calls) ELSE NotSubscribed
        ELSE IF react = "16.8" \/ cu # cursor \/ toggles \/ starts
          THEN Snapshot(cursor, fv, sp, creds)
        ELSE IF calls # << >> \/ ownPending
          THEN Snapshot(cursor, formValues, spinnersByCursor, credentials)
        ELSE handlers]
      ev == [op |-> "key", key |-> actionKey, called |-> called, live |-> TRUE]
  IN IF handlers.mounted
     THEN Render(ev, calls, fv, sp, cu, pend, subscribed)
     ELSE /\ last' = [op |-> "key", key |-> actionKey, called |-> FALSE, live |-> TRUE,
                      calls |-> << >>, printed |-> << >>]
          /\ UNCHANGED << propsElements, withBackButton, step, credentials, formValues,
                          spinnersByCursor, cursor, pending, handlers, surfaced,
                          interactions, formAtBack, chosenFamily, commandVars >>

\* One keypress that is not an action key, on a focused TextInput: the input
\* reports its new text and setFormValues renders, before which React runs
\* the effects still pending, those of a mount included. The Prompt's key
\* handler hears the same keypress after it and dispatches a setCursor that
\* keeps the cursor, before which React runs the effects of that render.
TypeText(value) ==
  LET els == elementsWithBack(propsElements, withBackButton)
      hovered == At(els, cursor)
      fv == onInputChange(formValues, value, hovered)
      ev == [op |-> "type", key |-> Undefined, called |-> FALSE, live |-> TRUE]
  IN /\ isElementInput(hovered)
     /\ TextInputChanges(IF Truthy(formValues, hovered.identifier)
                          THEN formValues[hovered.identifier] ELSE "", value)
     /\ Render(ev, << >>, fv, spinnersByCursor, cursor, pending,
               [react \in ReactBuilds |->
                  Snapshot(cursor, fv, spinnersByCursor, credentials)])

\* The timer of one pending call p of a select action fires: the rest of the
\* action runs with the callbacks it was given when it was called. `renders`
\* lists, in order, what each of its state updates that renders leaves: an
\* update made outside a React handler renders at once, and React runs the
\* effects of the render before first, so the listeners left subscribed are
\* those of the render before the last one. The stopSpinner of an unmounted
\* Prompt renders nothing; on "16.8" its dispatch still runs the effects
\* that are pending.
Complete(p) ==
  LET sp == IF p.live
            THEN removeSpinner(spinnersByCursor, p.elemIndex, StopState(p.onSelect))
            ELSE spinnersByCursor
      params == IF ActionSubmits(p.onSelect)
                THEN << submitPrompt(p.formValues, p.value, FALSE) >>
                ELSE << >>
      calls == [k \in 1..Len(params) |->
                 [step |-> p.step, credentials |-> p.credentials, params |-> params[k]]]
      renders == (IF p.live
                  THEN << Snapshot(cursor, formValues, sp, credentials) >> ELSE << >>)
                 \o (IF calls # << >>
                     THEN << Snapshot(cursor, formValues, sp, Submitted(calls).credentials) >>
                     ELSE << >>)
      ev == [op |-> "done", key |-> p.onSelect, called |-> FALSE, live |-> p.live]
      subscribed == [react \in ReactBuilds |->
                    IF renders = << >>
                      THEN IF react = "16.8"
                           THEN Snapshot(cursor, formValues, spinnersByCursor, credentials)
                           ELSE handlers
                    ELSE IF Len(renders) = 1
                      THEN Snapshot(cursor, formValues, spinnersByCursor, credentials)
                    ELSE renders[Len(renders) - 1]]
  IN Render(ev, calls, formValues, sp, cursor, pending (-) SetToBag({p}), subscribed)

\* React runs the effects of the latest render: every useStdin unsubscribes
\* the listener of the render before and subscribes the one of this render.
RunEffects ==
  /\ handlers # Snapshot(cursor, formValues, spinnersByCursor, credentials)
  /\ handlers' = Snapshot(cursor, formValues, spinnersByCursor, credentials)
  /\ last' = [op |-> "effects", key |-> Undefined, called |-> FALSE, live |-> TRUE,
              calls |-> << >>, printed |-> << >>]
  /\ UNCHANGED << propsElements, withBackButton, step, credentials, formValues,
                  spinnersByCursor, cursor, pending, surfaced, interactions,
                  formAtBack, chosenFamily, commandVars >>

Next ==
  \/ \E actionKey \in ActionKeys : KeyPress(actionKey)
  \/ \E value \in TextValues : TypeText(value)
  \/ \E p \in BagToSet(pending) : Complete(p)
  \/ RunEffects

Spec == Init /\ [][Next]_vars

\* the timers of pending select actions fire: setTimeout(res, 2000)
TimersFire == WF_vars(\E p \in BagToSet(pending) : Complete(p))

\* the wizard's events within the interactions checked for liveness
NextLive ==
  \/ \E actionKey \in ActionKeys :
       KeyPress(actionKey) /\ interactions' <= MaxLiveInteractions
  \/ \E value \in TextValues :
       TypeText(value) /\ interactions' <= MaxLiveInteractions
  \/ \E p \in BagToSet(pending) :
       Complete(p) /\ interactions' <= MaxLiveInteractions
  \/ RunEffects

SpecLive == Init /\ [][NextLive]_vars /\ TimersFire

\* ------------------------------------------- the Prompt with other elements
\* Element lists a parent can hand to the Prompt: a TextInput and a select
\* whose action is Test, Connection, or Quiet, an action that awaits its
\* timer and calls stopSpinner("succeeded") without ever calling startSpinner.
PromptLists ==
  { << Element("text-input", "host", Undefined, Undefined),
       Element("select", Undefined, "select", name) >> : name \in {"Test", "Connection", "Quiet"} }

\* the Connect step as entered after choosing postgres, showing one of PromptLists
InitPrompt ==
  /\ propsElements \in PromptLists
  /\ withBackButton = StepWithBackButton("CONNECT")
  /\ step = "CONNECT"
  /\ credentials = ChooseDbOnSubmit(EmptyObject, submitPrompt(EmptyObject, "postgres", FALSE)).credentials
  /\ formValues = StepInitialFormValues("CONNECT", credentials)
  /\ spinnersByCursor = EmptyObject
  /\ cursor = 0
  /\ pending = EmptyBag
  /\ handlers = Snapshot(cursor, formValues, spinnersByCursor, credentials)
  /\ surfaced = FALSE
  /\ interactions = 1
  /\ formAtBack = EmptyObject
  /\ chosenFamily = "postgres"
  /\ last = [op |-> "init"]
  /\ args = EmptyObject
  /\ run = IdleRun

SpecPrompt == InitPrompt /\ [][Next]_vars

\* ------------------------------------------------- the introspect command
\* flags whose presence alone matters to the resolver, each with one value
RequiredFlags == Range(requiredPostgresFlags) \cup Range(requiredMysqlFlags)

BooleanFlags == { "--pg-ssl", "--interactive", "--sdl", "--help" }

OtherFlags ==
  { "--pg-port", "--pg-schema", "--mysql-port", "--mysql-db", "--mongo-uri", "--mongo-db" }
    \cup BooleanFlags

\* port values: empty, a number, a number followed by text
PortSamples == { <<>>, << "5", "4" >>, << "7", "x" >> }

\* connection strings: empty, without scheme, without path, root path, with a path
UriSamples ==
  { <<>>, << "h" >>, << Scheme, "h" >>, << Scheme, "h", "/" >>, << Scheme, "h", "/", "d" >> }

\* schema and database names: empty, or a name
NameSamples == { <<>>, << "d" >> }

\* every connection string of at most MaxUriLen pieces, with and without scheme
MongoUris ==
  LET tails == SeqsUpTo({ "h", "d", "/", "?" }, MaxUriLen)
  IN tails \cup { << Scheme >> \o t : t \in tails }

FlagValues(flag) ==
  IF flag \in { "--pg-port", "--mysql-port" } THEN PortSamples
  ELSE IF flag = "--mongo-uri" THEN UriSamples
  ELSE IF flag \in { "--pg-schema", "--mysql-db", "--mongo-db" } THEN NameSamples
  ELSE IF flag \in BooleanFlags THEN { TRUE }
  ELSE { << "v" >> }

RECURSIVE ArgsOn(_)
\* every parsed command line that carries exactly the flags of `flags`
ArgsOn(flags) ==
  IF flags = {} THEN { EmptyObject }
  ELSE LET flag == CHOOSE f \in flags : TRUE
       IN { (flag :> value) @@ rest : value \in FlagValues(flag), rest \in ArgsOn(flags \ { flag }) }

\* the sets of at most MaxOtherFlags of the other flags
OtherFlagSets == { other \in SUBSET OtherFlags : Cardinality(other) <= MaxOtherFlags }

\* a command line with any required flags and one of the OtherFlagSets
CommandLine(a) ==
  \E required \in SUBSET RequiredFlags, other \in OtherFlagSets :
    a \in ArgsOn(required \cup other)

\* a connection string of MongoUris, with or without --mongo-db
MongoCommandLines ==
  { ("--mongo-uri" :> uri) @@ db :
      uri \in MongoUris,
      db \in { EmptyObject } \cup { "--mongo-db" :> name : name \in NameSamples } }

InitCommand ==
  /\ CommandLine(args) \/ args \in MongoCommandLines
  /\ run = [IdleRun EXCEPT !.pc = "start"]
  /\ propsElements = StepElements("CHOOSE_DB")
  /\ withBackButton = StepWithBackButton("CHOOSE_DB")
  /\ step = "CHOOSE_DB"
  /\ credentials = EmptyObject
  /\ formValues = StepInitialFormValues("CHOOSE_DB", EmptyObject)
  /\ spinnersByCursor = EmptyObject
  /\ cursor = 0
  /\ pending = EmptyBag
  /\ handlers = NotSubscribed
  /\ surfaced = FALSE
  /\ interactions = 0
  /\ formAtBack = EmptyObject
  /\ chosenFamily = Undefined
  /\ last = [op |-> "init"]

\* a catch block that reports the failure in the exit code
catchErrorExitOne(r, e) ==
  [r EXCEPT !.pc = "exited", !.error = e.message, !.caught = @ + 1,
            !.printed = Append(@, "Error"), !.exit = { 1 }]

\* the catch block of parse, and the process.exit(0) that follows it
catchError(r, e) ==
  [r EXCEPT !.pc = "exited", !.error = e.message, !.caught = @ + 1,
            !.printed = Append(@, "Error"), !.exit = { 0 }]

\* the rest of the try block of parse once getConnectorWithDatabase has
\* resolved, up to its next await or to the process.exit(0) after it:
\* `writes` is whether fs.writeFileSync succeeds, `addsDatamodel` whether the
\* project definition exists and has no datamodel yet
writeResult(r, a, writes, addsDatamodel) ==
  IF OrFalse(a, "--sdl")
  THEN [r EXCEPT !.pc = "exited", !.exit = { 0 }, !.printed = Append(@, "sdl")]
  ELSE IF ~writes THEN catchError(r, Throws("writeFileSync", <<>>))
  ELSE LET created == [r EXCEPT !.written = TRUE,
                                !.printed = @ \o << "Created datamodel definition",
                                                    "Created 1 new file" >>]
       IN IF addsDatamodel THEN [created EXCEPT !.pc = "load"]
          ELSE [created EXCEPT !.pc = "exited", !.exit = { 0 }]

\* getConnectorWithDatabase of the command up to its first await
getConnectorWithDatabase(r, a) ==
  LET credentialsByFlag == getCredentialsByFlags(a)
      resolved == [r EXCEPT !.resolved = credentialsByFlag]
  IN IF credentialsByFlag.kind = "throws" THEN catchError(resolved, credentialsByFlag)
     ELSE IF credentialsByFlag.kind = "null" THEN [resolved EXCEPT !.pc = "prompt"]
     ELSE IF Falsy(credentialsByFlag.value, "schema")
          THEN [resolved EXCEPT !.pc = "exited", !.exit = { 1 },
                                !.printed = Append(@, "Please provide a database name")]
          ELSE [resolved EXCEPT !.pc = "connect"]

\* parse up to the first await: the help, or flag resolution
parse ==
  /\ run.pc = "start"
  /\ run' = IF OrFalse(args, "--help")
             THEN [run EXCEPT !.pc = "returned", !.printed = Append(@, "help")]
             ELSE getConnectorWithDatabase(run, args)
  /\ UNCHANGED << args, propsElements, cursor, last, wizardVars >>

\* the wizard hands back an introspection result, or fails; parse goes on
\* to its output
promptIntrospectionInteractively(fails, writes, addsDatamodel) ==
  /\ run.pc = "prompt"
  /\ run' = IF fails THEN catchError(run, Throws("prompt", <<>>))
             ELSE writeResult(run, args, writes, addsDatamodel)
  /\ UNCHANGED << args, propsElements, cursor, last, wizardVars >>

\* the client connects, or the connection is refused
getConnectedConnectorFromCredentials(connects) ==
  /\ run.pc = "connect"
  /\ run' = IF connects THEN [run EXCEPT !.pc = "schemas"]
             ELSE catchError(run, Throws("connect", <<>>))
  /\ UNCHANGED << args, propsElements, cursor, last, wizardVars >>

\* getDatabaseSchemas and assertSchemaExists: the list of schemas arrives
\* with the named schema, or without it, or the query fails; with the schema
\* found, introspectWithSpinner starts and waits for connector.introspect
assertSchemaExists(schemas) ==
  /\ run.pc = "schemas"
  /\ run' = IF schemas = "listed" THEN [run EXCEPT !.pc = "introspect"]
             ELSE IF schemas = "absent"
               THEN catchError(run, Throws("The provided schema does not exist.", <<>>))
             ELSE catchError(run, Throws("getDatabaseSchemas", <<>>))
  /\ UNCHANGED << args, propsElements, cursor, last, wizardVars >>

\* introspect up to its second await: connector.introspect resolves or rejects
introspect(resolves) ==
  /\ run.pc = "introspect"
  /\ run' = IF resolves THEN [run EXCEPT !.pc = "normalize"]
             ELSE catchError(run, Throws("connector.introspect", <<>>))
  /\ UNCHANGED << args, propsElements, cursor, last, wizardVars >>

\* prettyTime of introspect/util, which returns chalk.cyan(output) in a
\* module that neither imports nor declares chalk
prettyTime == Throws("chalk is not defined", <<>>)

\* the rest of introspect once getNormalizedDatamodel has resolved or
\* rejected, and the rest of introspectWithSpinner: without --sdl it reports
\* the time taken through prettyTime; then getConnectorWithDatabase waits for
\* disconnect()
introspectWithSpinner(resolves, numTables) ==
  /\ run.pc = "normalize"
  /\ run' = IF ~resolves THEN catchError(run, Throws("getNormalizedDatamodel", <<>>))
             ELSE IF numTables = 0
               THEN catchError(run, Throws("The provided database doesn't contain any tables.", <<>>))
             ELSE IF ~OrFalse(args, "--sdl") THEN catchError(run, prettyTime)
             ELSE [run EXCEPT !.pc = "disconnect", !.disconnected = TRUE]
  /\ UNCHANGED << args, propsElements, cursor, last, wizardVars >>

\* disconnect() resolves or rejects; parse goes on to its output
disconnect(resolves, writes, addsDatamodel) ==
  /\ run.pc = "disconnect"
  /\ run' = IF resolves THEN writeResult(run, args, writes, addsDatamodel)
             ELSE catchError(run, Throws("disconnect", <<>>))
  /\ UNCHANGED << args, propsElements, cursor, last, wizardVars >>

\* definition.load resolves and addDatamodel succeeds, or one of them fails
\* after the datamodel file has been written
addDatamodel(loads) ==
  /\ run.pc = "load"
  /\ run' = IF loads
             THEN [run EXCEPT !.pc = "exited", !.exit = { 0 },
                              !.printed = Append(@, "Added datamodel")]
             ELSE catchError(run, Throws("definition.load", <<>>))
  /\ UNCHANGED << args, propsElements, cursor, last, wizardVars >>

NextCommand ==
  \/ parse
  \/ \E fails \in BOOLEAN, writes \in BOOLEAN, addsDatamodel \in BOOLEAN :
       promptIntrospectionInteractively(fails, writes, addsDatamodel)
  \/ \E connects \in BOOLEAN : getConnectedConnectorFromCredentials(connects)
  \/ \E schemas \in { "listed", "absent", "rejects" } : assertSchemaExists(schemas)
  \/ \E resolves \in BOOLEAN : introspect(resolves)
  \/ \E resolves \in BOOLEAN, numTables \in 0..1 : introspectWithSpinner(resolves, numTables)
  \/ \E resolves \in BOOLEAN, writes \in BOOLEAN, addsDatamodel \in BOOLEAN :
       disconnect(resolves, writes, addsDatamodel)
  \/ \E loads \in BOOLEAN : addDatamodel(loads)

SpecCommand == InitCommand /\ [][NextCommand]_vars

\* ------------------------------------------------ properties of the cursor helpers
OnSeparator(c, els) == isElementSeparator(At(els, c))

\* every element after c is a separator
OnlySeparatorsAfter(c, els) ==
  \A i \in (c + 1)..(Len(els) - 1) : OnSeparator(i, els)

\* every element before c is a separator
OnlySeparatorsBefore(c, els) ==
  \A i \in 0..(c - 1) : OnSeparator(i, els)

\* C1: a cursor that starts on a non-Separator element is on a non-Separator
\* element after any sequence of down and up calls.
C1_NeverOnSeparator ==
  ~OnSeparator(last.start, propsElements) => ~OnSeparator(cursor, propsElements)

\* C2: down and up keep the cursor inside [0, length-1]; down at the last
\* index and up at index 0 return the index they were given.
C2_CursorInRange ==
  /\ cursor \in 0..(Len(propsElements) - 1)
  /\ (last.op = "down" /\ last.from = Len(propsElements) - 1) => cursor = last.from
  /\ (last.op = "up" /\ last.from = 0) => cursor = 0

\* C2 witness: after earlier movement, a down call was made at the last index
C2_Witness ==
  /\ last.op = "down"
  /\ last.from = Len(propsElements) - 1
  /\ last.start # last.from
  /\ cursor = last.from

\* C3: down returns its cursor unchanged when only Separators follow it, and
\* up returns its cursor unchanged when only Separators precede it.
C3_NoLandingKeepsCursor ==
  [][ /\ (last'.op = "down" /\ OnlySeparatorsAfter(cursor, propsElements))
          => cursor' = cursor
      /\ (last'.op = "up" /\ OnlySeparatorsBefore(cursor, propsElements))
          => cursor' = cursor ]_vars

\* --------------------------------------------------- properties of the wizard
\* the element under the cursor is one of props.elements, a select with an action
OnActionSelect ==
  /\ cursor < Len(propsElements)
  /\ isElementSelect(At(propsElements, cursor))
  /\ At(propsElements, cursor).onSelect # Undefined

\* the element under the cursor is one of props.elements, a select without action
OnPlainSelect ==
  /\ cursor < Len(propsElements)
  /\ isElementSelect(At(propsElements, cursor))
  /\ At(propsElements, cursor).onSelect = Undefined

\* the step taken is a submit key
SubmitKey == last'.op = "key" /\ last'.key = "submit"

\* C4: a submit key on a select with an action whose spinner is running is
\* dropped: the action is not called, props.onSubmit is not called, and
\* formValues, cursor and spinnersByCursor keep their values.
C4_RunningSelectIsDropped ==
  [][ (SubmitKey /\ OnActionSelect /\ Get(spinnersByCursor, cursor) = "running")
      => /\ ~last'.called
         /\ last'.calls = << >>
         /\ UNCHANGED << formValues, cursor, spinnersByCursor >> ]_vars

\* C5: within one mounted step, the action of a select is never called while
\* the spinner of its index is running; an action in flight for a mounted
\* Prompt always has its spinner running and is the only one in flight for
\* its index, so a second call comes only after the spinner has settled.
C5_NoCallWhileRunning ==
  /\ [][ last'.called => Get(spinnersByCursor, handlers.cursor) # "running" ]_vars
  /\ [](\A p \in BagToSet(pending) :
         p.live => /\ Get(spinnersByCursor, p.elemIndex) = "running"
                   /\ CopiesIn(p, pending) = 1
                   /\ \A q \in BagToSet(pending) :
                        (q.live /\ q.elemIndex = p.elemIndex) => q = p)

\* C5 witness: a submit key reached the listener of the Test select while
\* its spinner was running: the action was not called again and the select
\* went on to submit the prompt
C5_Witness ==
  /\ last.op = "key" /\ last.key = "submit" /\ ~last.called
  /\ last.calls # << >> /\ last.calls[1].selectedValue = "test"
  /\ step = "CONNECT"
  /\ Get(spinnersByCursor, 7) = "running"
  /\ \E p \in BagToSet(pending) : p.live /\ p.elemIndex = 7 /\ CopiesIn(p, pending) = 1

\* C6: the Connect step's onSubmit prints a descriptor at most once in a run.
C6_SurfacedAtMostOnce ==
  [][ surfaced => last'.printed = << >> ]_vars

\* C7: every descriptor the Connect step's onSubmit prints has as type the
\* family submitted by the latest ChooseFamily step.
C7_DescriptorHasChosenFamily ==
  (last.op # "init" /\ last.printed # << >>)
    => Get(last.printed[1], "type") = chosenFamily

\* C8: Back leaves the Connect step for ChooseFamily with credentials equal
\* to formValues as they were; choosing a family afterwards enters Connect
\* with those formValues, type alone replaced by the chosen family.
C8_BackKeepsFormState ==
  [][ /\ (SubmitKey /\ withBackButton /\ cursor = Len(propsElements))
         => (step' = "CHOOSE_DB" /\ credentials' = formValues)
      /\ (step = "CHOOSE_DB" /\ chosenFamily # Undefined /\ step' = "CONNECT")
         => formValues' = Assign(formAtBack, "type", At(CHOOSE_DB, cursor).value) ]_vars

\* C9: a submit key on a family of the ChooseFamily step enters the Connect
\* step, whose formValues start with type equal to that family's value.
C9_ChooseSeedsType ==
  [][ (SubmitKey /\ step = "CHOOSE_DB")
      => /\ step' = "CONNECT"
         /\ Get(formValues', "type") = At(CHOOSE_DB, cursor).value
         /\ cursor' = 0 ]_vars

\* C10: a submit key on a select without action calls props.onSubmit exactly
\* once, with the element's value as selectedValue and goBack false.
C10_PlainSelectSubmits ==
  [][ (SubmitKey /\ OnPlainSelect)
      => /\ Len(last'.calls) = 1
         /\ last'.calls[1].selectedValue = At(propsElements, cursor).value
         /\ last'.calls[1].goBack = FALSE
         /\ ~last'.called ]_vars

\* --------------------------------------------------- the Back element
\* C11: the cursor reaches index Len(props.elements) only when withBackButton
\* is set; a submit key there calls props.onSubmit with goBack true, and no
\* other event ever passes goBack true.
C11_BackOnlyWithBackButton ==
  /\ [](/\ cursor \in 0..(Len(elementsWithBack(propsElements, withBackButton)) - 1)
        /\ cursor = Len(propsElements) => withBackButton)
  /\ [][ /\ (SubmitKey /\ withBackButton /\ cursor = Len(propsElements))
            => last'.calls = << submitPrompt(formValues, Undefined, TRUE) >>
         /\ \A i \in 1..Len(last'.calls) :
              last'.calls[i].goBack
                => (SubmitKey /\ withBackButton /\ cursor = Len(propsElements)) ]_vars

\* ------------------------------------------------ nearest landing position
\* the non-Separator indices after c, and before c
LandingsAfter(c, els) == { i \in (c + 1)..(Len(els) - 1) : ~OnSeparator(i, els) }
LandingsBefore(c, els) == { i \in 0..(c - 1) : ~OnSeparator(i, els) }

\* C20: when a non-Separator exists after (before) the cursor, down (up)
\* returns the index of the nearest non-Separator after (before) it.
C20_NearestLanding ==
  /\ (last.op = "down" /\ LandingsAfter(last.from, propsElements) # {})
       => /\ cursor \in LandingsAfter(last.from, propsElements)
          /\ \A i \in LandingsAfter(last.from, propsElements) : cursor <= i
  /\ (last.op = "up" /\ LandingsBefore(last.from, propsElements) # {})
       => /\ cursor \in LandingsBefore(last.from, propsElements)
          /\ \A i \in LandingsBefore(last.from, propsElements) : cursor >= i

\* C20 witness: a down call stepped over a separator and landed before a
\* further non-Separator
C20_Witness ==
  /\ last.op = "down"
  /\ cursor > last.from + 1
  /\ ~OnSeparator(cursor, propsElements)
  /\ LandingsAfter(cursor, propsElements) # {}

\* ------------------------------------------ properties of flag resolution
\* getCredentialsByFlags has been called in this run
Resolved == run.resolved.kind # "none"

\* the required flags of a family that are on the command line
Present(requiredArgs) == { f \in Range(requiredArgs) : f \in DOMAIN args }

\* a non-empty --mongo-uri is on the command line
HasMongoUri == "--mongo-uri" \in DOMAIN args /\ args["--mongo-uri"] # <<>>

MutualExclusionText == "You can't provide both MySQL and Postgres connection flags."
IncompleteGroupText == "If you provide one of the arguments, you need to provide all of them."
MissingDatabaseText == "Please provide a Mongo database in your connection string."

\* position of a flag in its required group
PositionIn(requiredArgs, flag) == CHOOSE i \in 1..Len(requiredArgs) : requiredArgs[i] = flag

\* C12: when a required MySQL flag and a required Postgres flag are both
\* present, resolution throws the mutual-exclusion error, whatever else is
\* present and whether or not either group is complete.
C12_MutualExclusionFirst ==
  (Resolved /\ Present(requiredMysqlFlags) # {} /\ Present(requiredPostgresFlags) # {})
    => /\ run.resolved.kind = "throws"
       /\ run.resolved.message.text = MutualExclusionText

\* C12 witness: both groups incomplete and an optional flag present, and
\* the mutual-exclusion error was thrown
C12_Witness ==
  /\ Resolved
  /\ Present(requiredMysqlFlags) = { "--mysql-user" }
  /\ Present(requiredPostgresFlags) = { "--pg-db", "--pg-host" }
  /\ "--mongo-uri" \in DOMAIN args
  /\ run.resolved.kind = "throws"
  /\ run.resolved.message.text = MutualExclusionText

\* the incomplete-group error of one family lists exactly its absent
\* required flags, in the order of the required group
IncompleteGroup(requiredArgs, prefix) ==
  /\ run.resolved.kind = "throws"
  /\ run.resolved.message.text = IncompleteGroupText
  /\ run.resolved.message.detail[1] = prefix
  /\ LET missing == run.resolved.message.detail[2]
     IN /\ Range(missing) = Range(requiredArgs) \ DOMAIN args
        /\ Len(missing) = Cardinality(Range(requiredArgs) \ DOMAIN args)
        /\ \A i, j \in 1..Len(missing) :
             i < j => PositionIn(requiredArgs, missing[i]) < PositionIn(requiredArgs, missing[j])

\* part of a family's required flags, and none of the other family's
PartOf(requiredArgs, otherArgs) ==
  /\ Present(requiredArgs) # {}
  /\ Present(requiredArgs) # Range(requiredArgs)
  /\ Present(otherArgs) = {}

\* C13: with part of one family's required flags and none of the other
\* family's, resolution throws the incomplete-group error whose missing
\* list is the family's absent required flags in required-group order.
C13_IncompleteGroupListsMissing ==
  /\ (Resolved /\ PartOf(requiredPostgresFlags, requiredMysqlFlags))
       => IncompleteGroup(requiredPostgresFlags, "pg")
  /\ (Resolved /\ PartOf(requiredMysqlFlags, requiredPostgresFlags))
       => IncompleteGroup(requiredMysqlFlags, "mysql")

\* C13 witness: only --pg-host and --pg-user are present, and the error
\* lists --pg-password, --pg-db
C13_Witness ==
  /\ Resolved
  /\ Present(requiredPostgresFlags) = { "--pg-host", "--pg-user" }
  /\ Present(requiredMysqlFlags) = {}
  /\ run.resolved.kind = "throws"
  /\ run.resolved.message.detail = << "pg", << "--pg-password", "--pg-db" >> >>

\* the port flag of the family of a resolved SQL descriptor
PortFlag(descriptor) == IF descriptor.type = "mysql" THEN "--mysql-port" ELSE "--pg-port"

\* C14: a resolved Postgres or MySQL descriptor has no port when the
\* family's port flag is not supplied, and the flag's integer value when it is.
C14_PortUnsetWithoutPortFlag ==
  (Resolved /\ run.resolved.kind = "returns" /\ run.resolved.value.type \in { "postgres", "mysql" })
    => LET descriptor == run.resolved.value
       IN IF PortFlag(descriptor) \in DOMAIN args
          THEN "port" \in DOMAIN descriptor
               /\ (args[PortFlag(descriptor)] = << "5", "4" >> => descriptor.port = Num(54))
          ELSE "port" \notin DOMAIN descriptor

\* C15: resolution returns null exactly when no required Postgres flag, no
\* required MySQL flag and no non-empty --mongo-uri is present, and the
\* command then goes to the interactive wizard.
C15_NullWithoutFamily ==
  /\ [](Resolved =>
          (run.resolved.kind = "null"
             <=> /\ Present(requiredPostgresFlags) = {}
                 /\ Present(requiredMysqlFlags) = {}
                 /\ ~HasMongoUri))
  /\ [][(run.pc = "start" /\ run'.resolved.kind = "null") => run'.pc = "prompt"]_vars

\* C15 witness: only optional flags are present, and the wizard is next
C15_Witness ==
  /\ DOMAIN args = { "--pg-port", "--mysql-db" }
  /\ run.resolved.kind = "null"
  /\ run.pc = "prompt"

\* the path of a URL is empty or the root
NoPath(url) == url.pathname \in { <<>>, << "/" >> }

\* populateMongoDatabase has been called in this run, with a URL
Populated == Resolved /\ "populated" \in DOMAIN run.resolved /\ URL(args["--mongo-uri"]).valid

\* a non-empty --mongo-db is on the command line
HasMongoDb == "--mongo-db" \in DOMAIN args /\ args["--mongo-db"] # <<>>

\* C16: populateMongoDatabase throws the missing-database error exactly
\* when the path is empty or "/" and no database is given; otherwise it
\* returns the given database, or else the path without its leading slash,
\* and the uri it was given.
C16_PopulateMongoDatabase ==
  Populated =>
    LET populated == run.resolved.populated
        url == URL(args["--mongo-uri"])
    IN /\ populated.kind = "throws" <=> (NoPath(url) /\ ~HasMongoDb)
       /\ populated.kind = "throws" => populated.message.text = MissingDatabaseText
       /\ populated.kind = "returns" =>
            /\ populated.value.uri = args["--mongo-uri"]
            /\ HasMongoDb => populated.value.database = args["--mongo-db"]
            /\ ~HasMongoDb => << "/" >> \o populated.value.database = url.pathname

\* C16 witness: a database was given although the URI has a path of its
\* own, and the given database was returned
C16_Witness ==
  /\ Populated /\ HasMongoDb
  /\ Len(URL(args["--mongo-uri"]).pathname) = 2
  /\ run.resolved.populated.kind = "returns"
  /\ run.resolved.populated.value.database = args["--mongo-db"]

\* a Mongo descriptor has been resolved in this run
MongoDescriptor ==
  Resolved /\ run.resolved.kind = "returns" /\ run.resolved.value.type = "mongo"

\* C17: sanitizeMongoUri rewrites an empty or root path to /admin, leaves
\* every other URI as it is, and gives its own results back unchanged; the
\* uri of every resolved Mongo descriptor has a path other than "" and "/".
C17_SanitizeMongoUri ==
  MongoDescriptor =>
    LET before == URL(args["--mongo-uri"])
        after == URL(run.resolved.value.uri)
    IN /\ after.valid
       /\ NoPath(before) => after.pathname = << "/", "admin" >>
       /\ ~NoPath(before) => run.resolved.value.uri = args["--mongo-uri"]
       /\ after.host = before.host
       /\ after.hasQuery = before.hasQuery /\ after.query = before.query
       /\ sanitizeMongoUri(run.resolved.value.uri) = Returns(run.resolved.value.uri)
       /\ ~NoPath(after)

\* C17 witness: a URI without a path and with a query was rewritten
C17_Witness ==
  /\ MongoDescriptor
  /\ URL(args["--mongo-uri"]).pathname = <<>>
  /\ URL(args["--mongo-uri"]).hasQuery
  /\ URL(run.resolved.value.uri).pathname = << "/", "admin" >>

\* ------------------------------------------- properties of the command run
\* C18: the process exits with code 1 exactly when flag resolution returned
\* a descriptor without a schema name and --interactive was not given.
C18_ExitOneOnlyWhenNotInteractive ==
  run.exit = { 1 }
    <=> /\ Resolved /\ run.resolved.kind = "returns"
        /\ ("schema" \notin DOMAIN run.resolved.value \/ run.resolved.value.schema = <<>>)
        /\ "--interactive" \notin DOMAIN args

\* the errors of flag resolution and introspection
RaisedErrors ==
  { MutualExclusionText, IncompleteGroupText, MissingDatabaseText,
    "The provided schema does not exist.",
    "The provided database doesn't contain any tables." }

\* how often the catch block printed
ErrorsPrinted == Cardinality({ i \in 1..Len(run.printed) : run.printed[i] = "Error" })

\* C19: an error of flag resolution or introspection is caught once, its
\* message is printed, no datamodel file is written, and the exit code is 0.
C19_ErrorsCaughtOnceExitZero ==
  /\ run.caught <= 1 /\ ErrorsPrinted = run.caught
  /\ (Resolved /\ run.resolved.kind = "throws")
       => (run.caught = 1 /\ run.error = run.resolved.message)
  /\ run.error.text \in RaisedErrors => run.caught = 1
  /\ run.caught = 1 =>
       /\ run.pc = "exited" /\ run.exit = { 0 }
       /\ run.printed[Len(run.printed)] = "Error"
  /\ run.error.text \in RaisedErrors => ~run.written

\* C19 witness: introspection found no tables, after flags resolved, the
\* client connected and the schema was listed
C19_Witness ==
  /\ run.resolved.kind = "returns"
  /\ run.error.text = "The provided database doesn't contain any tables."
  /\ run.caught = 1
  /\ run.exit = { 0 }

\* ------------------------------------------ properties of the wizard, continued
\* C21: in the wizard (ChooseFamily, and Connect with its Back element) the
\* cursor is inside the list the Prompt moves over and is not on a separator.
C21_WizardCursorOnElement ==
  LET els == elementsWithBack(propsElements, withBackButton)
  IN /\ cursor \in 0..(Len(els) - 1)
     /\ ~OnSeparator(cursor, els)

\* C21 witness: in the Connect step an up key took the cursor from Test over
\* the separator to the checkbox
C21_Witness ==
  /\ step = "CONNECT"
  /\ last.op = "key" /\ last.key = "up"
  /\ cursor = 5
  /\ OnSeparator(cursor + 1, propsElements)
  /\ spinnersByCursor # EmptyObject

\* C22, as claimed: whenever a key invokes a select's action, the spinner of
\* the invoked index is `running` afterwards, whatever the action does.
C22_ControllerMarksRunning ==
  [][(last'.op = "key" /\ last'.called)
       => Get(spinnersByCursor', handlers.cursor) = "running"]_vars

\* C22, amended: the invoked index is `running` afterwards exactly when the
\* action calls the startSpinner callback it is handed, as Test and
\* Connection do on their first line and Quiet does not.
C22_ActionMarksRunning ==
  [][(last'.op = "key" /\ last'.called) =>
       (Get(spinnersByCursor', handlers.cursor) = "running"
          <=> At(propsElements, handlers.cursor).onSelect # "Quiet")]_vars

\* C22 witness: Quiet was invoked by a second key while its first
\* invocation is pending, and its spinner is not running
C22_Witness ==
  /\ last.op = "key" /\ last.called
  /\ \E p \in BagToSet(pending) :
       /\ p.live /\ p.onSelect = "Quiet" /\ CopiesIn(p, pending) = 2
       /\ Get(spinnersByCursor, p.elemIndex) # "running"

\* the element the cursor is on, Back included
Hovered == At(elementsWithBack(propsElements, withBackButton), cursor)

\* the Form State holds a non-empty value for the hovered element
HoveredHasValue ==
  Hovered.identifier \in DOMAIN formValues /\ formValues[Hovered.identifier] # ""

C24_FormStateFrame ==
  [][step' = step =>
       /\ formValues' # formValues
            => \/ last'.op = "type" /\ isElementInput(Hovered)
               \/ SubmitKey /\ isElementCheckbox(Hovered)
       /\ \A k \in DOMAIN formValues :
            k # Hovered.identifier => (k \in DOMAIN formValues' /\ formValues'[k] = formValues[k])
       /\ DOMAIN formValues' \subseteq DOMAIN formValues \cup { Hovered.identifier }]_vars

\* C25: whenever a step is entered the cursor is 0 and no index has a
\* spinner state; an action that completes changes the spinner state only
\* of an index that is running in the mounted Prompt, so an action pending
\* from an earlier visit leaves the entered step's spinners as they are.
C25_StepEntryResets ==
  [][/\ step' # step => (cursor' = 0 /\ spinnersByCursor' = EmptyObject)
     /\ last'.op = "done" =>
          \A i \in 0..Len(propsElements) :
            Get(spinnersByCursor, i) # "running"
              => Get(spinnersByCursor', i) = Get(spinnersByCursor, i)]_vars

\* C25 witness: the Connect step has just been entered again while an
\* action of the previous visit is pending
C25_Witness ==
  /\ step = "CONNECT"
  /\ last.op = "key" /\ last.key = "submit" /\ Len(last.calls) = 1
  /\ cursor = 0 /\ spinnersByCursor = EmptyObject
  /\ \E p \in BagToSet(pending) : ~p.live /\ p.onSelect = "Test"

\* the indices of the Connect step's selects that carry an action
ActionIndices ==
  { i \in 0..(Len(elements) - 1) :
      isElementSelect(At(elements, i)) /\ At(elements, i).onSelect # Undefined }

\* C26: in the Connect step, if pending timers fire, a running spinner
\* becomes succeeded or failed unless the step is left; and within the step
\* a spinner leaves `running` only by the completion of its own action.
C26_RunningSpinnerSettles ==
  /\ \A i \in ActionIndices :
       (step = "CONNECT" /\ Get(spinnersByCursor, i) = "running")
         ~> (step # "CONNECT" \/ Get(spinnersByCursor, i) \in {"succeeded", "failed"})
  /\ [][\A i \in ActionIndices :
          (step = "CONNECT" /\ step' = step
             /\ Get(spinnersByCursor, i) = "running" /\ Get(spinnersByCursor', i) # "running")
            => (last'.op = "done" /\ last'.live /\ last'.key = At(elements, i).onSelect)]_vars

\* C26 witness: Connection has completed in the Connect step after the
\* cursor was moved away from it
C26_Witness ==
  /\ step = "CONNECT"
  /\ last.op = "done" /\ last.live /\ last.key = "Connection"
  /\ Get(spinnersByCursor, 8) = "succeeded"
  /\ cursor = 0

\* C27: an action that completes after its step was exited surfaces no
\* descriptor, leaves the wizard's step and leaves the credentials as they are.
C27_ExitedStepHasNoEffect ==
  [][(last'.op = "done" /\ ~last'.live) =>
       /\ last'.printed = <<>>
       /\ step' = step
       /\ credentials' = credentials]_vars

\* C28: when an action submits the Connect step after its asynchronous work,
\* the form values it passes to onSubmit, and the descriptor that is surfaced,
\* are the form state at that moment.
C28_SubmitsCurrentFormState ==
  [][(last'.op = "done" /\ last'.live /\ last'.calls # <<>>) =>
       /\ last'.calls[1].formValues = formValues
       /\ \A i \in 1..Len(last'.printed) :
            \A k \in DOMAIN formValues : Get(last'.printed[i], k) = formValues[k]]_vars

\* C29: at any time of a wizard run, at most one invocation of a given select
\* action (Test, Connection) is in flight.
C29_OneInvocationInFlight ==
  \A p, q \in BagToSet(pending) :
    (p.onSelect = q.onSelect /\ p.onSelect \in {"Test", "Connection"})
      => (p = q /\ CopiesIn(p, pending) = 1)

====
